---- MODULE Spec2Model ----
(***************************************************************************)
(* FoodHub backend canister (src/unnamed/part_000): three keyed stores     *)
(* (foodProducts, orders, customerInteractions) and the update entry       *)
(* points that validate, authorise and mutate them.  One action per entry  *)
(* point; every call runs to completion before the next one starts.        *)
(***************************************************************************)
EXTENDS Integers, FiniteSets, Sequences, TLC

\* ------------------------------------------------------------------ bounds
\* The most products the canister finds in its stable store when it starts,
\* the most orders and reviews a run creates, and the largest quantity a
\* caller passes.  A run is either a catalogue run (up to MaxProducts
\* products and MaxOrders orders, no reviews) or a review run (up to one
\* product, MaxOrders orders, MaxInteractions reviews); cap says which.
MaxProducts == 2
MaxOrders == 1
MaxInteractions == 1
MaxQty == 2
\* The most add-to-cart clicks in a page run, and the largest quantity of an
\* entry found in localStorage when the page loads.
MaxAdds == 3
MaxLoadedQty == 2
Caps == {[products |-> MaxProducts, orders |-> MaxOrders, interactions |-> 0],
         [products |-> 1, orders |-> MaxOrders, interactions |-> MaxInteractions]}
ServiceCaps == {[products |-> 1, orders |-> MaxOrders + 1, interactions |-> 0],
                [products |-> 1, orders |-> 0, interactions |-> MaxInteractions + 1]}

\* The most keys any one store holds in a run.
KeyCount ==
    LET a == MaxProducts
        b == MaxOrders + 1
        c == MaxInteractions + 1
        ab == IF a > b THEN a ELSE b
    IN IF ab > c THEN ab ELSE c

\* ------------------------------------------------------------------ inputs
\* Principals.  owner is the principal captured when the module is loaded.
owner == "owner"
Callers == {"owner", "alice", "bob"}

\* uuidv4(): the n-th id handed out for each store.
ProductIds == <<"p1", "p2", "p3", "p4", "p5">>
OrderIds == <<"o1", "o2", "o3", "o4", "o5">>
InteractionIds == <<"r1", "r2", "r3", "r4", "r5">>

\* Ids a caller may pass: the empty string, and ids that are (or will be) keys.
ProductIdInputs == {""} \cup {ProductIds[i] : i \in 1..MaxProducts}
OrderIdInputs == {""} \cup {OrderIds[i] : i \in 1..MaxOrders}

\* Principal.toString(): the text of a principal.
toString(p) ==
    CASE p = "owner" -> "text-owner"
      [] p = "alice" -> "text-alice"
      [] p = "bob" -> "text-bob"

\* customerId strings a caller may pass to getOrdersByCustomer.
CustomerIdInputs == {""} \cup {toString(c) : c \in Callers}

\* `number` arguments (float64 in the candid interface): the integers from 0,
\* which the validations take for missing, to MaxQty.
Quantities == 0..MaxQty

\* FoodPayload values: the valid ones and one with each field falsy.
FoodPayloads ==
    {[name |-> "Burger", description |-> "Tasty", price |-> 500, quantityAvailable |-> q] :
        q \in Quantities}
    \cup {[name |-> "", description |-> "Tasty", price |-> 500, quantityAvailable |-> MaxQty],
          [name |-> "Burger", description |-> "", price |-> 500, quantityAvailable |-> MaxQty],
          [name |-> "Burger", description |-> "Tasty", price |-> 0, quantityAvailable |-> MaxQty]}

OrderPayloads == [productId : ProductIdInputs, quantity : Quantities]

InteractionPayloads ==
    {[productId |-> p, rating |-> 5, review |-> "good"] : p \in ProductIdInputs}
    \cup {[productId |-> ProductIds[1], rating |-> 0, review |-> "good"],
          [productId |-> ProductIds[1], rating |-> 5, review |-> ""]}

\* ------------------------------------------------------------------- state
VARIABLES
    foodProducts,          \* id -> FoodProduct
    orders,                \* id -> Order
    customerInteractions,  \* id -> CustomerInteraction
    getAliases,            \* does StableBTreeMap.get hand back the stored object?
    now,                   \* ic.time()
    cap,                   \* how many records of each kind this run holds
    keyOrder,              \* how the uuids drawn sort: keyOrder[i] is the hand-out
                           \* position of the i-th smallest key
    last,                  \* the last call: [op, caller, id, ret]
    updated,               \* history: ids of the products on which
                           \* updateProductQuantity has succeeded
    cartItems,             \* Food page: the cartItems state
    localStorage,          \* the browser's localStorage
    mounted,               \* Food page: has the cart-load effect run?
    added,                 \* history: item id -> add-to-cart clicks so far
    loaded                 \* history: the cart the cart-load effect found

canister == <<foodProducts, orders, customerInteractions, getAliases, now, cap, keyOrder,
              updated>>
page == <<cartItems, localStorage, mounted, added, loaded>>
vars == <<foodProducts, orders, customerInteractions, getAliases, now, cap, keyOrder, last,
          updated,
          cartItems, localStorage, mounted, added, loaded>>

\* ----------------------------------------------------------------- helpers
\* JavaScript `!x` on a string and on a number.
NotStr(s) == s = ""
NotNum(n) == n = 0

Ok(v) == [tag |-> "Ok", val |-> v]
Err(m) == [tag |-> "Err", val |-> m]

\* StableBTreeMap.insert / containsKey
Insert(m, k, v) == [x \in DOMAIN m \cup {k} |-> IF x = k THEN v ELSE m[x]]
Has(m, k) == k \in DOMAIN m

\* StableBTreeMap.get: an Opt, { Some: value } or { None: null }, the two
\* shapes the handlers match on.
get(m, k) == IF Has(m, k) THEN [tag |-> "Some", val |-> m[k]] ELSE [tag |-> "None"]

\* JavaScript `if (x)` on an Opt: an object is truthy whatever it holds, so
\* { None: null } is as truthy as { Some: value }.
Truthy(opt) == opt.tag \in {"Some", "None"}

\* uuidv4(): a fresh id for each store
NewProductId == ProductIds[Cardinality(DOMAIN foodProducts) + 1]
NewOrderId == OrderIds[Cardinality(DOMAIN orders) + 1]
NewInteractionId == InteractionIds[Cardinality(DOMAIN customerInteractions) + 1]

\* The effect of a handler: its return value and the three stores after it.
Effect(r, p, o, i) == [ret |-> r, foodProducts |-> p, orders |-> o, customerInteractions |-> i]
NoChange(r) == Effect(r, foodProducts, orders, customerInteractions)

\* `order.status = s` on the value orders.get returned.  Nothing is written
\* back with orders.insert, so the store sees the assignment only when get
\* returned the stored object itself rather than a decoded copy.
SetStatus(orderId, s) ==
    IF getAliases THEN [orders EXCEPT ![orderId].status = s] ELSE orders

\* ---------------------------------------------------------------- handlers
\* addProduct whose validation rejects only the empty strings, not zero.
addProduct_acceptsZero(caller, payload) ==
    IF NotStr(payload.name) \/ NotStr(payload.description)
    THEN NoChange(Err("Invalid payload"))
    ELSE LET product == [id |-> NewProductId,
                         name |-> payload.name,
                         description |-> payload.description,
                         price |-> payload.price,
                         quantityAvailable |-> payload.quantityAvailable]
             existingProduct == get(foodProducts, product.id)
         IN IF Truthy(existingProduct)
            THEN NoChange(Err("Product with the same id already exists"))
            ELSE Effect(Ok(product), Insert(foodProducts, product.id, product),
                        orders, customerInteractions)

\* The duplicate check tests `if (existingProduct)` on the Opt that get
\* returned, which is truthy for a missing key too: every payload that passes
\* the validation is refused and the insert is never reached.
addProduct(caller, payload) ==
    IF NotStr(payload.name) \/ NotStr(payload.description)
       \/ NotNum(payload.price) \/ NotNum(payload.quantityAvailable)
    THEN NoChange(Err("Invalid payload"))
    ELSE LET product == [id |-> NewProductId,
                         name |-> payload.name,
                         description |-> payload.description,
                         price |-> payload.price,
                         quantityAvailable |-> payload.quantityAvailable]
             existingProduct == get(foodProducts, product.id)
         IN IF Truthy(existingProduct)
            THEN NoChange(Err("Product with the same id already exists"))
            ELSE Effect(Ok(product), Insert(foodProducts, product.id, product),
                        orders, customerInteractions)

\* updateProductQuantity that builds the updated record field by field and
\* leaves the price out.
updateProductQuantity_losesPrice(caller, productId, newQuantity) ==
    IF NotStr(productId)
    THEN NoChange(Err("Invalid Product ID provided."))
    ELSE IF ~Has(foodProducts, productId)
    THEN NoChange(Err(<<"Couldn't update Product with id=", productId, ". Product not found">>))
    ELSE IF owner # caller
    THEN NoChange(Err("You are not the owner of this product"))
    ELSE LET product == foodProducts[productId]
             updatedProduct == [id |-> product.id,
                                name |-> product.name,
                                description |-> product.description,
                                price |-> 0,
                                quantityAvailable |-> newQuantity]
         IN Effect(Ok(updatedProduct), Insert(foodProducts, product.id, updatedProduct),
                   orders, customerInteractions)

\* updateProductQuantity without the owner check.
updateProductQuantity_noOwnerCheck(caller, productId, newQuantity) ==
    IF NotStr(productId)
    THEN NoChange(Err("Invalid Product ID provided."))
    ELSE IF ~Has(foodProducts, productId)
    THEN NoChange(Err(<<"Couldn't update Product with id=", productId, ". Product not found">>))
    ELSE LET product == foodProducts[productId]
             updatedProduct == [product EXCEPT !.quantityAvailable = newQuantity]
         IN Effect(Ok(updatedProduct), Insert(foodProducts, product.id, updatedProduct),
                   orders, customerInteractions)

updateProductQuantity(caller, productId, newQuantity) ==
    IF NotStr(productId)
    THEN NoChange(Err("Invalid Product ID provided."))
    ELSE IF ~Has(foodProducts, productId)
    THEN NoChange(Err(<<"Couldn't update Product with id=", productId, ". Product not found">>))
    ELSE IF owner # caller
    THEN NoChange(Err("You are not the owner of this product"))
    ELSE LET product == foodProducts[productId]
             updatedProduct == [product EXCEPT !.quantityAvailable = newQuantity]
         IN Effect(Ok(updatedProduct), Insert(foodProducts, product.id, updatedProduct),
                   orders, customerInteractions)

\* placeOrder that takes an order for a product it does not find.
placeOrder_noLookup(caller, payload) ==
    IF NotStr(payload.productId) \/ NotNum(payload.quantity)
    THEN NoChange(Err("Invalid payload"))
    ELSE LET order == [id |-> NewOrderId,
                       customerId |-> caller,
                       productId |-> payload.productId,
                       quantity |-> payload.quantity,
                       status |-> "placed",
                       createdAt |-> now]
         IN IF ~Has(foodProducts, payload.productId)
            THEN Effect(Ok(order), foodProducts,
                        Insert(orders, order.id, order), customerInteractions)
            ELSE LET product == foodProducts[payload.productId]
                     updatedProduct ==
                         [product EXCEPT !.quantityAvailable =
                                             product.quantityAvailable - payload.quantity]
                 IN Effect(Ok(order), Insert(foodProducts, product.id, updatedProduct),
                           Insert(orders, order.id, order), customerInteractions)

\* placeOrder that stores the order before it looks the product up.
placeOrder_insertsFirst(caller, payload) ==
    IF NotStr(payload.productId) \/ NotNum(payload.quantity)
    THEN NoChange(Err("Invalid payload"))
    ELSE LET order == [id |-> NewOrderId,
                       customerId |-> caller,
                       productId |-> payload.productId,
                       quantity |-> payload.quantity,
                       status |-> "placed",
                       createdAt |-> now]
         IN IF ~Has(foodProducts, payload.productId)
            THEN Effect(Err("Product not found"), foodProducts,
                        Insert(orders, order.id, order), customerInteractions)
            ELSE LET product == foodProducts[payload.productId]
                     updatedProduct ==
                         [product EXCEPT !.quantityAvailable =
                                             product.quantityAvailable - payload.quantity]
                 IN Effect(Ok(order), Insert(foodProducts, product.id, updatedProduct),
                           Insert(orders, order.id, order), customerInteractions)

\* placeOrder that stores the order and leaves the product as it was.
placeOrder_noDecrement(caller, payload) ==
    IF NotStr(payload.productId) \/ NotNum(payload.quantity)
    THEN NoChange(Err("Invalid payload"))
    ELSE IF ~Has(foodProducts, payload.productId)
    THEN NoChange(Err("Product not found"))
    ELSE LET order == [id |-> NewOrderId,
                       customerId |-> caller,
                       productId |-> payload.productId,
                       quantity |-> payload.quantity,
                       status |-> "placed",
                       createdAt |-> now]
         IN Effect(Ok(order), foodProducts, Insert(orders, order.id, order),
                   customerInteractions)

placeOrder(caller, payload) ==
    IF NotStr(payload.productId) \/ NotNum(payload.quantity)
    THEN NoChange(Err("Invalid payload"))
    ELSE IF ~Has(foodProducts, payload.productId)
    THEN NoChange(Err("Product not found"))
    ELSE LET product == foodProducts[payload.productId]
             order == [id |-> NewOrderId,
                       customerId |-> caller,
                       productId |-> payload.productId,
                       quantity |-> payload.quantity,
                       status |-> "placed",
                       createdAt |-> now]
             updatedProduct ==
                 [product EXCEPT !.quantityAvailable =
                                     product.quantityAvailable - payload.quantity]
         IN Effect(Ok(order), Insert(foodProducts, product.id, updatedProduct),
                   Insert(orders, order.id, order), customerInteractions)

\* cancelOrder that gives the cancelled quantity back to the product.
cancelOrder_restocks(caller, orderId) ==
    IF NotStr(orderId) THEN NoChange(FALSE)
    ELSE IF ~Has(orders, orderId) THEN NoChange(FALSE)
    ELSE IF orders[orderId].customerId # caller THEN NoChange(FALSE)
    ELSE IF orders[orderId].status = "placed"
    THEN LET order == orders[orderId]
         IN Effect(TRUE,
                   [foodProducts EXCEPT ![order.productId].quantityAvailable =
                                            @ + order.quantity],
                   SetStatus(orderId, "cancelled"), customerInteractions)
    ELSE NoChange(FALSE)

\* cancelOrder that also lets the owner cancel.
cancelOrder_ownerMayCancel(caller, orderId) ==
    IF NotStr(orderId) THEN NoChange(FALSE)
    ELSE IF ~Has(orders, orderId) THEN NoChange(FALSE)
    ELSE IF orders[orderId].customerId # caller /\ owner # caller THEN NoChange(FALSE)
    ELSE IF orders[orderId].status = "placed"
    THEN Effect(TRUE, foodProducts, SetStatus(orderId, "cancelled"), customerInteractions)
    ELSE NoChange(FALSE)

cancelOrder(caller, orderId) ==
    IF NotStr(orderId) THEN NoChange(FALSE)
    ELSE IF ~Has(orders, orderId) THEN NoChange(FALSE)
    ELSE IF orders[orderId].customerId # caller THEN NoChange(FALSE)
    ELSE IF orders[orderId].status = "placed"
    THEN Effect(TRUE, foodProducts, SetStatus(orderId, "cancelled"), customerInteractions)
    ELSE NoChange(FALSE)

\* confirmOrder without the status check.
confirmOrder_anyStatus(caller, orderId) ==
    IF NotStr(orderId) THEN NoChange(FALSE)
    ELSE IF ~Has(orders, orderId) THEN NoChange(FALSE)
    ELSE Effect(TRUE, foodProducts, SetStatus(orderId, "confirmed"), customerInteractions)

\* confirmOrder with the owner check its sibling deliverOrder has.
confirmOrder_ownerOnly(caller, orderId) ==
    IF NotStr(orderId) THEN NoChange(FALSE)
    ELSE IF ~Has(orders, orderId) THEN NoChange(FALSE)
    ELSE IF owner # caller THEN NoChange(FALSE)
    ELSE IF orders[orderId].status = "placed"
    THEN Effect(TRUE, foodProducts, SetStatus(orderId, "confirmed"), customerInteractions)
    ELSE NoChange(FALSE)

confirmOrder(caller, orderId) ==
    IF NotStr(orderId) THEN NoChange(FALSE)
    ELSE IF ~Has(orders, orderId) THEN NoChange(FALSE)
    ELSE IF orders[orderId].status = "placed"
    THEN Effect(TRUE, foodProducts, SetStatus(orderId, "confirmed"), customerInteractions)
    ELSE NoChange(FALSE)

\* deliverOrder without the status check.
deliverOrder_anyStatus(caller, orderId) ==
    IF NotStr(orderId) THEN NoChange(FALSE)
    ELSE IF ~Has(orders, orderId) THEN NoChange(FALSE)
    ELSE IF owner # caller THEN NoChange(FALSE)
    ELSE Effect(TRUE, foodProducts, SetStatus(orderId, "delivered"), customerInteractions)

\* deliverOrder without the owner check.
deliverOrder_noOwnerCheck(caller, orderId) ==
    IF NotStr(orderId) THEN NoChange(FALSE)
    ELSE IF ~Has(orders, orderId) THEN NoChange(FALSE)
    ELSE IF orders[orderId].status = "confirmed"
    THEN Effect(TRUE, foodProducts, SetStatus(orderId, "delivered"), customerInteractions)
    ELSE NoChange(FALSE)

deliverOrder(caller, orderId) ==
    IF NotStr(orderId) THEN NoChange(FALSE)
    ELSE IF ~Has(orders, orderId) THEN NoChange(FALSE)
    ELSE IF owner # caller THEN NoChange(FALSE)
    ELSE IF orders[orderId].status = "confirmed"
    THEN Effect(TRUE, foodProducts, SetStatus(orderId, "delivered"), customerInteractions)
    ELSE NoChange(FALSE)

\* addCustomerInteraction that keys every review by the same id.
addCustomerInteraction_reusesId(caller, payload) ==
    IF NotStr(payload.productId) \/ NotNum(payload.rating) \/ NotStr(payload.review)
    THEN NoChange(Err("Invalid payload"))
    ELSE LET interaction == [id |-> InteractionIds[1],
                             customerId |-> caller,
                             productId |-> payload.productId,
                             rating |-> payload.rating,
                             review |-> payload.review,
                             createdAt |-> now]
         IN Effect(Ok(interaction), foodProducts, orders,
                   Insert(customerInteractions, interaction.id, interaction))

addCustomerInteraction(caller, payload) ==
    IF NotStr(payload.productId) \/ NotNum(payload.rating) \/ NotStr(payload.review)
    THEN NoChange(Err("Invalid payload"))
    ELSE LET interaction == [id |-> NewInteractionId,
                             customerId |-> caller,
                             productId |-> payload.productId,
                             rating |-> payload.rating,
                             review |-> payload.review,
                             createdAt |-> now]
         IN Effect(Ok(interaction), foodProducts, orders,
                   Insert(customerInteractions, interaction.id, interaction))

\* ----------------------------------------------------------------- actions
\* One update call: the stores become what the handler left; the entry point,
\* the caller, the id the call named and the value returned are recorded; a
\* call that stamped ic.time() is followed by a later time.
Call(op, caller, id, e, stamped) ==
    /\ foodProducts' = e.foodProducts
    /\ orders' = e.orders
    /\ customerInteractions' = e.customerInteractions
    /\ last' = [op |-> op, caller |-> caller, id |-> id, ret |-> e.ret]
    /\ updated' = IF op = "updateProductQuantity" /\ e.ret.tag = "Ok"
                  THEN updated \cup {id}
                  ELSE updated
    /\ now' = IF stamped THEN now + 1 ELSE now
    /\ UNCHANGED <<getAliases, cap, keyOrder>>
    /\ UNCHANGED page

AddProduct ==
    \E caller \in Callers, payload \in FoodPayloads :
        LET e == addProduct(caller, payload)
        IN Call("addProduct", caller, "", e, FALSE)

UpdateProductQuantity ==
    \E caller \in Callers, productId \in ProductIdInputs, newQuantity \in Quantities :
        Call("updateProductQuantity", caller, productId,
             updateProductQuantity(caller, productId, newQuantity), FALSE)

PlaceOrder ==
    \E caller \in Callers, payload \in OrderPayloads :
        LET e == placeOrder(caller, payload)
        IN /\ e.ret.tag = "Ok" => Cardinality(DOMAIN orders) < cap.orders
           /\ Call("placeOrder", caller, payload.productId, e, e.ret.tag = "Ok")

CancelOrder ==
    \E caller \in Callers, orderId \in OrderIdInputs :
        Call("cancelOrder", caller, orderId, cancelOrder(caller, orderId), FALSE)

ConfirmOrder ==
    \E caller \in Callers, orderId \in OrderIdInputs :
        Call("confirmOrder", caller, orderId, confirmOrder(caller, orderId), FALSE)

DeliverOrder ==
    \E caller \in Callers, orderId \in OrderIdInputs :
        Call("deliverOrder", caller, orderId, deliverOrder(caller, orderId), FALSE)

AddCustomerInteraction ==
    \E caller \in Callers, payload \in InteractionPayloads :
        LET e == addCustomerInteraction(caller, payload)
        IN /\ e.ret.tag = "Ok" => Cardinality(DOMAIN customerInteractions) < cap.interactions
           /\ Call("addCustomerInteraction", caller, payload.productId, e, e.ret.tag = "Ok")

\* ----------------------------------------------------------------- queries
\* StableBTreeMap.values(): the stored values in key order.  The keys are
\* random uuids, so the order in which they sort is not the order in which
\* they were handed out: the i-th smallest key is ids[keyOrder[i]].
RECURSIVE ValuesUpTo(_, _, _)
ValuesUpTo(m, ids, n) ==
    IF n = 0 THEN << >>
    ELSE LET rest == ValuesUpTo(m, ids, n - 1)
             k == ids[keyOrder[n]]
         IN IF Has(m, k) THEN Append(rest, m[k]) ELSE rest
Values(m, ids) == ValuesUpTo(m, ids, Len(keyOrder))

getProductsbyId(id) ==
    IF NotStr(id) THEN NoChange(Err("Invalid ID provided."))
    ELSE IF Has(foodProducts, id) THEN NoChange(Ok(foodProducts[id]))
    ELSE NoChange(Err(<<"Product with id=", id, " not found">>))

getCustomerInteractionsByProduct(productId) ==
    IF NotStr(productId) THEN NoChange(Err("Invalid Product ID provided."))
    ELSE NoChange(Ok(SelectSeq(Values(customerInteractions, InteractionIds),
                               LAMBDA interaction : interaction.productId = productId)))

\* getOrdersByCustomer that compares the Principal itself with the string.
getOrdersByCustomer_noToString(customerId) ==
    IF NotStr(customerId) THEN NoChange(Err("Invalid Customer ID provided."))
    ELSE NoChange(Ok(SelectSeq(Values(orders, OrderIds),
                               LAMBDA order : order.customerId = customerId)))

getOrdersByCustomer(customerId) ==
    IF NotStr(customerId) THEN NoChange(Err("Invalid Customer ID provided."))
    ELSE NoChange(Ok(SelectSeq(Values(orders, OrderIds),
                               LAMBDA order : toString(order.customerId) = customerId)))

getProducts == NoChange(Ok(Values(foodProducts, ProductIds)))

\* The query entry points never read ic.caller(); the calls are made by the
\* anonymous principal.
anonymous == "anonymous"

GetProductsbyId ==
    \E id \in ProductIdInputs :
        Call("getProductsbyId", anonymous, id, getProductsbyId(id), FALSE)

GetCustomerInteractionsByProduct ==
    \E productId \in ProductIdInputs :
        Call("getCustomerInteractionsByProduct", anonymous, productId,
             getCustomerInteractionsByProduct(productId), FALSE)

GetOrdersByCustomer ==
    \E customerId \in CustomerIdInputs :
        Call("getOrdersByCustomer", anonymous, customerId,
             getOrdersByCustomer(customerId), FALSE)

GetProducts == Call("getProducts", anonymous, "", getProducts, FALSE)

\* --------------------------------------------------------------- Food page
\* The items the page shows, each with an Add button.
Items == {[id |-> "f1", name |-> "Burger", price |-> 5],
          [id |-> "f2", name |-> "Pizza", price |-> 7]}
ItemIds == {item.id : item \in Items}

\* { ...itemToAdd, quantity: q }
Entry(item, q) ==
    [id |-> item.id, name |-> item.name, price |-> item.price, quantity |-> q]

\* JSON.stringify / JSON.parse of a cart, and localStorage.getItem / setItem.
\* getItem of a key that was never set gives null, which JSON.parse hands
\* back as null.  A parsed value is [isNull |-> FALSE, value |-> v].
Null == [isNull |-> TRUE]
JSONstringify(v) == [json |-> v]
JSONparse(t) == IF t = Null THEN Null ELSE [isNull |-> FALSE, value |-> t.json]
getItem(key) == IF key \in DOMAIN localStorage THEN localStorage[key] ELSE Null
setItem(key, text) == Insert(localStorage, key, text)

\* updatedCart.findIndex((item) => item.id === itemToAdd.id): the first
\* position (from 1) holding that id, 0 where JavaScript gives -1.
findIndex(cart, id) ==
    IF \E i \in 1..Len(cart) : cart[i].id = id
    THEN CHOOSE i \in 1..Len(cart) :
             /\ cart[i].id = id
             /\ \A j \in 1..(i - 1) : cart[j].id # id
    ELSE 0

\* handleAddToCart that pushes a new entry on every click.
handleAddToCart_alwaysPushes(itemToAdd) ==
    Append(cartItems, Entry(itemToAdd, 1))

\* The cart handleAddToCart builds from cartItems.
handleAddToCart(itemToAdd) ==
    LET itemIndex == findIndex(cartItems, itemToAdd.id)
    IN IF itemIndex > 0
       THEN [cartItems EXCEPT ![itemIndex].quantity = @ + 1]
       ELSE Append(cartItems, Entry(itemToAdd, 1))

\* The badge: shown when the cart is not empty, with the sum of quantities.
RECURSIVE reduce(_)
reduce(cart) == IF cart = << >> THEN 0 ELSE cart[1].quantity + reduce(Tail(cart))
badge == IF Len(cartItems) > 0 THEN reduce(cartItems) ELSE 0

\* useEffect(() => setCartItems(JSON.parse(getItem("cartItems")) || []), [])
LoadCart ==
    /\ ~mounted
    /\ LET items == JSONparse(getItem("cartItems"))
       IN /\ cartItems' = IF items.isNull THEN << >> ELSE items.value
          /\ loaded' = cartItems'
    /\ mounted' = TRUE
    /\ UNCHANGED <<canister, last, localStorage, added>>

HandleAddToCart ==
    \E itemToAdd \in Items :
        /\ mounted
        /\ added[itemToAdd.id] < MaxAdds
        /\ LET updatedCart == handleAddToCart(itemToAdd)
           IN /\ cartItems' = updatedCart
              /\ localStorage' = setItem("cartItems", JSONstringify(updatedCart))
        /\ added' = [added EXCEPT ![itemToAdd.id] = @ + 1]
        /\ UNCHANGED <<canister, last, mounted, loaded>>

\* Carts a page run may find in localStorage: written by handleAddToCart in
\* an earlier run, so one entry per id, each with a quantity of at least 1.
RECURSIVE CartsOver(_)
CartsOver(ids) ==
    {<< >>} \cup
    UNION {{<<Entry(item, q)>> \o rest :
               q \in 1..MaxLoadedQty, rest \in CartsOver(ids \ {item.id})} :
           item \in {it \in Items : it.id \in ids}}
StoredCarts == CartsOver(ItemIds)

\* ---------------------------------------------------------- specifications
\* The ways KeyCount uuids can sort, and the one where they sort as drawn.
KeyOrders == {f \in [1..KeyCount -> 1..KeyCount] :
                 \A i, j \in 1..KeyCount : f[i] = f[j] => i = j}
AsDrawn == [i \in 1..KeyCount |-> i]

\* The product stores a canister may find in stable memory (id 0) when its
\* module is loaded: none on a first install, up to n FoodProduct records
\* after an upgrade, each with MaxQty in stock (updateProductQuantity and
\* placeOrder reach the other quantities).  The StableBTreeMap constructor
\* opens the memory and keeps what it holds.
RECURSIVE StoredProducts(_)
StoredProducts(n) ==
    IF n = 0 THEN {<< >>}
    ELSE LET fewer == StoredProducts(n - 1)
             lastId == ProductIds[n]
         IN fewer \cup
            {Insert(m, lastId, [id |-> lastId, name |-> "Burger", description |-> "Tasty",
                                price |-> 500, quantityAvailable |-> MaxQty]) :
                m \in {x \in fewer : Cardinality(DOMAIN x) = n - 1}}

InitCanister(caps, keyOrders) ==
    /\ cap \in caps
    /\ foodProducts \in StoredProducts(cap.products)
    /\ orders = << >>
    /\ customerInteractions = << >>
    /\ getAliases \in BOOLEAN
    /\ keyOrder \in keyOrders
    /\ now = 1
    /\ updated = {}
    /\ last = [op |-> "init", caller |-> owner, id |-> "", ret |-> TRUE]

\* The page before its first effect: useState([]), nothing clicked.
InitPage(storages) ==
    /\ cartItems = << >>
    /\ mounted = FALSE
    /\ added = [id \in ItemIds |-> 0]
    /\ loaded = << >>
    /\ localStorage \in storages

\* No query runs here, so how the keys sort is never seen.
Init == InitCanister(Caps, {AsDrawn}) /\ InitPage({<< >>})

Next ==
    \/ AddProduct
    \/ UpdateProductQuantity
    \/ PlaceOrder
    \/ CancelOrder
    \/ ConfirmOrder
    \/ DeliverOrder
    \/ AddCustomerInteraction

Spec == Init /\ [][Next]_vars

\* The update and the query entry points together.
InitService == InitCanister(ServiceCaps, KeyOrders) /\ InitPage({<< >>})

NextService ==
    \/ AddProduct
    \/ UpdateProductQuantity
    \/ PlaceOrder
    \/ CancelOrder
    \/ ConfirmOrder
    \/ DeliverOrder
    \/ AddCustomerInteraction
    \/ GetProductsbyId
    \/ GetCustomerInteractionsByProduct
    \/ GetOrdersByCustomer
    \/ GetProducts

SpecService == InitService /\ [][NextService]_vars

\* The Food page alone, over a canister nobody calls.
InitFoodPage ==
    /\ InitCanister({[products |-> 0, orders |-> 0, interactions |-> 0]}, {AsDrawn})
    /\ ~getAliases
    /\ InitPage({<< >>} \cup {[cartItems |-> JSONstringify(c)] : c \in StoredCarts})

NextFoodPage ==
    \/ LoadCart
    \/ HandleAddToCart

SpecFoodPage == InitFoodPage /\ [][NextFoodPage]_vars

\* ------------------------------------------------------------------ claims
StatusCalls == {"cancelOrder", "confirmOrder", "deliverOrder"}
StatusSteps == {<<"placed", "confirmed">>, <<"confirmed", "delivered">>,
                <<"placed", "cancelled">>}
SameStores(e) ==
    /\ e.foodProducts = foodProducts
    /\ e.orders = orders
    /\ e.customerInteractions = customerInteractions

\* C1: in every step, every stored order stays stored and its status either
\* stays as it is or moves placed -> confirmed, confirmed -> delivered or
\* placed -> cancelled; so a cancelled or delivered order never changes status.
C1_StatusSteps ==
    [][\A o \in DOMAIN orders :
          /\ o \in DOMAIN orders'
          /\ orders'[o].status # orders[o].status
                => <<orders[o].status, orders'[o].status>> \in StatusSteps]_vars

\* A status call was made on a delivered order and refused.
C1_Witness ==
    /\ last.op \in StatusCalls
    /\ Has(orders, last.id)
    /\ orders[last.id].status = "delivered"
    /\ last.ret = FALSE

\* C2: when cancelOrder returns true, the order stored under the id it was
\* given has status cancelled.
C2_CancelStoresCancelled ==
    (last.op = "cancelOrder" /\ last.ret = TRUE)
        => orders[last.id].status = "cancelled"

\* C3: when confirmOrder returns true, the order stored under the id it was
\* given has status confirmed.
C3_ConfirmStoresConfirmed ==
    (last.op = "confirmOrder" /\ last.ret = TRUE)
        => orders[last.id].status = "confirmed"

\* C4: placeOrder by any caller with a positive quantity q on a stored product
\* holding Q >= q succeeds; the order it returns is new, is stored as returned,
\* has status placed, the caller as customerId and the given productId and
\* quantity; the product then holds Q - q.
C4_PlaceOrderDecrements ==
    \A caller \in Callers, payload \in OrderPayloads :
        (/\ Has(foodProducts, payload.productId)
         /\ payload.quantity > 0
         /\ payload.quantity <= foodProducts[payload.productId].quantityAvailable)
        => LET e == placeOrder(caller, payload)
               o == e.ret.val
           IN /\ e.ret.tag = "Ok"
              /\ ~Has(orders, o.id)
              /\ DOMAIN e.orders = DOMAIN orders \cup {o.id}
              /\ e.orders[o.id] = o
              /\ o.status = "placed"
              /\ o.customerId = caller
              /\ o.productId = payload.productId
              /\ o.quantity = payload.quantity
              /\ e.foodProducts[payload.productId].quantityAvailable
                    = foodProducts[payload.productId].quantityAvailable - payload.quantity

\* A placeOrder with a positive quantity succeeded and left the product with
\* a non-negative quantity (so the quantity was at most what was available).
C4_Witness ==
    /\ last.op = "placeOrder"
    /\ last.ret.tag = "Ok"
    /\ last.ret.val.quantity > 0
    /\ orders[last.ret.val.id] = last.ret.val
    /\ foodProducts[last.id].quantityAvailable >= 0

\* C5: every stored product has quantityAvailable >= 0.
C5_NonNegativeQuantity ==
    \A p \in DOMAIN foodProducts : foodProducts[p].quantityAvailable >= 0

\* C6: deliverOrder by a caller other than the owner returns false and leaves
\* the stores as they were, whatever the order id and the order's status.
C6_DeliverNeedsOwner ==
    \A caller \in Callers \ {owner}, orderId \in OrderIdInputs :
        LET e == deliverOrder(caller, orderId)
        IN e.ret = FALSE /\ SameStores(e)

\* A caller other than the owner called deliverOrder on a confirmed order.
C6_Witness ==
    /\ last.op = "deliverOrder"
    /\ last.caller # owner
    /\ last.ret = FALSE
    /\ Has(orders, last.id)
    /\ orders[last.id].status = "confirmed"

\* C7: cancelOrder with an empty id, an id of no stored order, or by a caller
\* who is not the order's customerId returns false and leaves the stores as
\* they were.
C7_CancelNeedsCustomer ==
    \A caller \in Callers, orderId \in OrderIdInputs :
        (\/ orderId = ""
         \/ ~Has(orders, orderId)
         \/ orders[orderId].customerId # caller)
        => LET e == cancelOrder(caller, orderId)
           IN e.ret = FALSE /\ SameStores(e)

\* The owner called cancelOrder on a placed order of another customer.
C7_Witness ==
    /\ last.op = "cancelOrder"
    /\ last.caller = owner
    /\ last.ret = FALSE
    /\ Has(orders, last.id)
    /\ orders[last.id].customerId # owner
    /\ orders[last.id].status = "placed"

\* C8: confirmOrder on a stored order whose status is confirmed, cancelled or
\* delivered returns false and leaves the stores as they were.
C8_ConfirmOnlyFromPlaced ==
    \A caller \in Callers, orderId \in OrderIdInputs :
        (Has(orders, orderId)
         /\ orders[orderId].status \in {"confirmed", "cancelled", "delivered"})
        => LET e == confirmOrder(caller, orderId)
           IN e.ret = FALSE /\ SameStores(e)

\* confirmOrder was called on a cancelled order.
C8_Witness ==
    /\ last.op = "confirmOrder"
    /\ last.ret = FALSE
    /\ Has(orders, last.id)
    /\ orders[last.id].status = "cancelled"

\* C9: confirmOrder on a stored order with status placed returns true for
\* every caller.
C9_AnyoneConfirms ==
    \A caller \in Callers, orderId \in OrderIdInputs :
        (Has(orders, orderId) /\ orders[orderId].status = "placed")
        => confirmOrder(caller, orderId).ret = TRUE

\* confirmOrder returned true to a caller who is neither the owner nor the
\* order's customer.
C9_Witness ==
    /\ last.op = "confirmOrder"
    /\ last.ret = TRUE
    /\ last.caller # owner
    /\ last.caller # orders[last.id].customerId

\* C10: updateProductQuantity on a stored product fails with the not-the-owner
\* message and changes nothing for a caller other than the owner; for the owner
\* it returns the stored record with quantityAvailable replaced by newQuantity,
\* stores that record under the product's id and changes nothing else.  On a
\* non-empty id of no stored product it fails with the not-found message and
\* changes nothing, whoever calls.
C10_UpdateProductQuantity ==
    \A caller \in Callers, productId \in ProductIdInputs, newQuantity \in Quantities :
        LET e == updateProductQuantity(caller, productId, newQuantity)
        IN IF Has(foodProducts, productId)
           THEN IF caller # owner
                THEN /\ e.ret = Err("You are not the owner of this product")
                     /\ SameStores(e)
                ELSE LET old == foodProducts[productId]
                         new == e.ret.val
                     IN /\ e.ret.tag = "Ok"
                        /\ new.quantityAvailable = newQuantity
                        /\ new.id = old.id
                        /\ new.name = old.name
                        /\ new.description = old.description
                        /\ new.price = old.price
                        /\ DOMAIN e.foodProducts = DOMAIN foodProducts
                        /\ e.foodProducts[productId] = new
                        /\ \A p \in DOMAIN foodProducts \ {productId} :
                              e.foodProducts[p] = foodProducts[p]
                        /\ e.orders = orders
                        /\ e.customerInteractions = customerInteractions
           ELSE productId # ""
                => /\ e.ret = Err(<<"Couldn't update Product with id=", productId,
                                    ". Product not found">>)
                   /\ SameStores(e)

\* The owner updated the quantity of one of two stored products.
C10_Witness ==
    /\ last.op = "updateProductQuantity"
    /\ last.caller = owner
    /\ last.ret.tag = "Ok"
    /\ foodProducts[last.id] = last.ret.val
    /\ Cardinality(DOMAIN foodProducts) = 2

\* C11: an update call that returns a failure (Err, or false from the status
\* entry points) leaves the three stores exactly as they were, for every
\* caller and every input.
C11_FailureChangesNothing ==
    /\ \A caller \in Callers, payload \in FoodPayloads :
          LET e == addProduct(caller, payload)
          IN e.ret.tag = "Err" => SameStores(e)
    /\ \A caller \in Callers, productId \in ProductIdInputs, newQuantity \in Quantities :
          LET e == updateProductQuantity(caller, productId, newQuantity)
          IN e.ret.tag = "Err" => SameStores(e)
    /\ \A caller \in Callers, payload \in OrderPayloads :
          LET e == placeOrder(caller, payload)
          IN e.ret.tag = "Err" => SameStores(e)
    /\ \A caller \in Callers, payload \in InteractionPayloads :
          LET e == addCustomerInteraction(caller, payload)
          IN e.ret.tag = "Err" => SameStores(e)
    /\ \A caller \in Callers, orderId \in OrderIdInputs :
          /\ LET e == cancelOrder(caller, orderId) IN e.ret = FALSE => SameStores(e)
          /\ LET e == confirmOrder(caller, orderId) IN e.ret = FALSE => SameStores(e)
          /\ LET e == deliverOrder(caller, orderId) IN e.ret = FALSE => SameStores(e)

\* placeOrder failed on an id of no stored product while another product is
\* stored.
C11_Witness ==
    /\ last.op = "placeOrder"
    /\ last.ret = Err("Product not found")
    /\ ~Has(foodProducts, last.id)
    /\ foodProducts # << >>

\* C12: addProduct with a payload whose name and description are non-empty
\* and whose price and quantityAvailable are non-zero returns Ok with a record
\* carrying the payload's four fields; and in the state an addProduct call
\* that returned Ok leaves, getProductsbyId of the returned id returns Ok of
\* the returned record.
C12_AddThenLookup ==
    /\ \A caller \in Callers, payload \in FoodPayloads :
          (/\ payload.name # "" /\ payload.description # ""
           /\ payload.price # 0 /\ payload.quantityAvailable # 0)
          => LET e == addProduct(caller, payload)
             IN /\ e.ret.tag = "Ok"
                /\ e.ret.val.name = payload.name
                /\ e.ret.val.description = payload.description
                /\ e.ret.val.price = payload.price
                /\ e.ret.val.quantityAvailable = payload.quantityAvailable
    /\ (last.op = "addProduct" /\ last.ret.tag = "Ok")
          => LET found == getProductsbyId(last.ret.val.id).ret
             IN found.tag = "Ok" /\ found.val = last.ret.val

\* C13: in every step each stored product stays stored under its id with the
\* same id, name, description and price, and its quantityAvailable changes
\* only in an updateProductQuantity or placeOrder call on that product that
\* returned Ok.
C13_ProductsOnlyGrow ==
    [][\/ foodProducts' = foodProducts
       \/ \A p \in DOMAIN foodProducts :
             /\ p \in DOMAIN foodProducts'
             /\ foodProducts'[p].id = foodProducts[p].id
             /\ foodProducts'[p].name = foodProducts[p].name
             /\ foodProducts'[p].description = foodProducts[p].description
             /\ foodProducts'[p].price = foodProducts[p].price
             /\ foodProducts'[p].quantityAvailable # foodProducts[p].quantityAvailable
                   => /\ last'.op \in {"updateProductQuantity", "placeOrder"}
                      /\ last'.id = p
                      /\ last'.ret.tag = "Ok"]_vars

\* With two products stored, placeOrder on one of them returned Ok and the
\* two products hold different quantities.
C13_Witness ==
    /\ last.op = "placeOrder"
    /\ last.ret.tag = "Ok"
    /\ Cardinality(DOMAIN foodProducts) = 2
    /\ \E p \in DOMAIN foodProducts :
          foodProducts[p].quantityAvailable # foodProducts[last.id].quantityAvailable

\* C14: getOrdersByCustomer with a non-empty customerId returns Ok of a list
\* holding, once each, exactly the stored orders whose customerId has that
\* text, and leaves the stores as they were; and every step keeps each stored
\* order stored with the same customerId, so an order placed by a caller is in
\* every later result for that caller.
OrdersOf(customerId) ==
    {orders[o] : o \in {x \in DOMAIN orders : toString(orders[x].customerId) = customerId}}
C14_OrdersByCustomer ==
    /\ [](\A customerId \in CustomerIdInputs \ {""} :
             LET e == getOrdersByCustomer(customerId)
             IN /\ e.ret.tag = "Ok"
                /\ SameStores(e)
                /\ {e.ret.val[i] : i \in 1..Len(e.ret.val)} = OrdersOf(customerId)
                /\ Len(e.ret.val) = Cardinality(OrdersOf(customerId)))
    /\ [][\/ orders' = orders
          \/ \A o \in DOMAIN orders :
                /\ o \in DOMAIN orders'
                /\ orders'[o].id = o
                /\ orders'[o].customerId = orders[o].customerId]_vars

\* With orders of two customers stored, getOrdersByCustomer returned the one
\* order of the customer asked for, after that order had left status placed.
C14_Witness ==
    /\ last.op = "getOrdersByCustomer"
    /\ last.ret.tag = "Ok"
    /\ Len(last.ret.val) = 1
    /\ Cardinality(DOMAIN orders) = 2
    /\ toString(last.ret.val[1].customerId) = last.id
    /\ last.ret.val[1].status # "placed"

\* C15: a stored review is never changed or removed by any step; a valid
\* addCustomerInteraction succeeds whatever reviews are already stored (also
\* for the same productId and caller), adding its record under a fresh id and
\* keeping the others; getCustomerInteractionsByProduct with a non-empty
\* productId returns Ok of a list holding, once each, exactly the stored
\* reviews with that productId, and leaves the stores as they were.
ReviewsOf(productId) ==
    {customerInteractions[r] :
        r \in {x \in DOMAIN customerInteractions :
                  customerInteractions[x].productId = productId}}
C15_ReviewsImmutable ==
    /\ [](/\ \A productId \in ProductIdInputs \ {""} :
                LET e == getCustomerInteractionsByProduct(productId)
                IN /\ e.ret.tag = "Ok"
                   /\ SameStores(e)
                   /\ {e.ret.val[i] : i \in 1..Len(e.ret.val)} = ReviewsOf(productId)
                   /\ Len(e.ret.val) = Cardinality(ReviewsOf(productId))
          /\ \A caller \in Callers, payload \in InteractionPayloads :
                (payload.productId # "" /\ payload.rating # 0 /\ payload.review # "")
                    => LET e == addCustomerInteraction(caller, payload)
                       IN /\ e.ret.tag = "Ok"
                          /\ e.ret.val.id \notin DOMAIN customerInteractions
                          /\ DOMAIN e.customerInteractions
                                = DOMAIN customerInteractions \cup {e.ret.val.id}
                          /\ e.customerInteractions[e.ret.val.id] = e.ret.val
                          /\ \A r \in DOMAIN customerInteractions :
                                e.customerInteractions[r] = customerInteractions[r])
    /\ [][\/ customerInteractions' = customerInteractions
          \/ \A r \in DOMAIN customerInteractions :
                /\ r \in DOMAIN customerInteractions'
                /\ customerInteractions'[r] = customerInteractions[r]]_vars

\* Two reviews by the same caller for the same productId are stored, and
\* getCustomerInteractionsByProduct returned both.
C15_Witness ==
    /\ last.op = "getCustomerInteractionsByProduct"
    /\ last.ret.tag = "Ok"
    /\ Len(last.ret.val) = 2
    /\ last.ret.val[1].customerId = last.ret.val[2].customerId
    /\ last.ret.val[1].productId = last.id
    /\ last.ret.val[2].productId = last.id
    /\ last.ret.val[1].id # last.ret.val[2].id

\* C16: addProduct with price 0 or quantityAvailable 0, placeOrder with
\* quantity 0 and addCustomerInteraction with rating 0 return
\* Err("Invalid payload") and leave the stores as they were; and a step after
\* which a product has quantityAvailable 0 that it did not have before is a
\* placeOrder or an updateProductQuantity on that product.
C16_ZeroIsMissing ==
    /\ [](/\ \A caller \in Callers, payload \in FoodPayloads :
                (payload.price = 0 \/ payload.quantityAvailable = 0)
                    => LET e == addProduct(caller, payload)
                       IN e.ret = Err("Invalid payload") /\ SameStores(e)
          /\ \A caller \in Callers, payload \in OrderPayloads :
                payload.quantity = 0
                    => LET e == placeOrder(caller, payload)
                       IN e.ret = Err("Invalid payload") /\ SameStores(e)
          /\ \A caller \in Callers, payload \in InteractionPayloads :
                payload.rating = 0
                    => LET e == addCustomerInteraction(caller, payload)
                       IN e.ret = Err("Invalid payload") /\ SameStores(e))
    /\ [][\/ foodProducts' = foodProducts
          \/ \A p \in DOMAIN foodProducts' :
                (/\ foodProducts'[p].quantityAvailable = 0
                 /\ (p \in DOMAIN foodProducts => foodProducts[p].quantityAvailable # 0))
                    => /\ last'.op \in {"placeOrder", "updateProductQuantity"}
                       /\ last'.id = p
                       /\ last'.ret.tag = "Ok"]_vars

\* placeOrder named a stored product and was refused as an invalid payload, so
\* its quantity was 0, while a stored product has quantityAvailable 0.
C16_Witness ==
    /\ last.op = "placeOrder"
    /\ last.ret = Err("Invalid payload")
    /\ Has(foodProducts, last.id)
    /\ orders = << >>
    /\ \E p \in DOMAIN foodProducts : foodProducts[p].quantityAvailable = 0

\* C17: once the Food page has loaded its cart, after any add-to-cart clicks
\* the cart holds at most one entry per item id, the quantity of an id is its
\* loaded quantity plus the clicks on it (an id with neither has no entry),
\* what JSON.parse reads back from the cartItems key (or [] for null) is the
\* cart state, and the badge shows the loaded total plus the number of clicks.
QuantityOf(cart, id) ==
    LET i == findIndex(cart, id) IN IF i > 0 THEN cart[i].quantity ELSE 0
RECURSIVE TotalAdded(_)
TotalAdded(ids) ==
    IF ids = {} THEN 0
    ELSE LET id == CHOOSE x \in ids : TRUE IN added[id] + TotalAdded(ids \ {id})
C17_CartCounts ==
    mounted =>
        /\ \A i, j \in 1..Len(cartItems) : cartItems[i].id = cartItems[j].id => i = j
        /\ \A i \in 1..Len(cartItems) :
              \E item \in Items : cartItems[i] = Entry(item, cartItems[i].quantity)
        /\ \A id \in ItemIds :
              /\ QuantityOf(cartItems, id) = QuantityOf(loaded, id) + added[id]
              /\ (findIndex(cartItems, id) > 0) = (QuantityOf(cartItems, id) > 0)
        /\ LET items == JSONparse(getItem("cartItems"))
           IN cartItems = IF items.isNull THEN << >> ELSE items.value
        /\ badge = reduce(loaded) + TotalAdded(ItemIds)

\* The page loaded a cart holding one item, which was then clicked again (the
\* increment branch), and the other item was clicked twice (push, increment).
C17_Witness ==
    /\ mounted
    /\ Len(loaded) = 1
    /\ Len(cartItems) = 2
    /\ added[loaded[1].id] >= 1
    /\ \E id \in ItemIds : id # loaded[1].id /\ added[id] = 2
    /\ badge = loaded[1].quantity + TotalAdded(ItemIds)

\* C18: every stored product on which no updateProductQuantity has succeeded
\* has the quantity it was stored with less the quantities of all stored
\* orders for it, of every status; and in every step, for every stored
\* product, quantityAvailable plus the quantities of its stored orders stays
\* what it was unless the step is a successful updateProductQuantity on that
\* product, a step adds a product only through addProduct, with the quantity
\* returned and no orders, and cancelOrder, confirmOrder and deliverOrder
\* leave every product as it was.
RECURSIVE OrderedOver(_, _, _)
OrderedOver(ords, ids, productId) ==
    IF ids = {} THEN 0
    ELSE LET o == CHOOSE x \in ids : TRUE
         IN (IF ords[o].productId = productId THEN ords[o].quantity ELSE 0)
            + OrderedOver(ords, ids \ {o}, productId)
Ordered(ords, productId) == OrderedOver(ords, DOMAIN ords, productId)
C18_InventoryAccounting ==
    /\ [](\A p \in DOMAIN foodProducts \ updated :
             foodProducts[p].quantityAvailable = MaxQty - Ordered(orders, p))
    /\ [][\/ (foodProducts' = foodProducts /\ orders' = orders)
          \/ /\ last'.op \in StatusCalls => foodProducts' = foodProducts
             /\ \A p \in DOMAIN foodProducts' :
                   IF p \in DOMAIN foodProducts
                   THEN \/ /\ last'.op = "updateProductQuantity"
                           /\ last'.id = p
                           /\ last'.ret.tag = "Ok"
                        \/ foodProducts'[p].quantityAvailable + Ordered(orders', p)
                              = foodProducts[p].quantityAvailable + Ordered(orders, p)
                   ELSE /\ last'.op = "addProduct"
                        /\ last'.ret.tag = "Ok"
                        /\ foodProducts'[p].quantityAvailable
                              = last'.ret.val.quantityAvailable
                        /\ Ordered(orders', p) = 0]_vars

\* Two callers have each an order on the same product, on which no
\* updateProductQuantity has succeeded, and one of the two orders has just
\* been cancelled by its customer.
C18_Witness ==
    /\ last.op = "cancelOrder"
    /\ last.ret = TRUE
    /\ Has(orders, last.id)
    /\ orders[last.id].status = "cancelled"
    /\ \E o \in DOMAIN orders :
          /\ o # last.id
          /\ orders[o].productId = orders[last.id].productId
          /\ orders[o].customerId # orders[last.id].customerId
          /\ Has(foodProducts, orders[o].productId)
          /\ orders[o].productId \notin updated
          /\ Ordered(orders, orders[o].productId)
                = orders[o].quantity + orders[last.id].quantity

\* C19: every stored order names a stored product and has a non-zero
\* quantity; an order a step adds is the record a placeOrder call returned,
\* with the caller as customerId, the payload's productId and the call's time
\* as createdAt, and no later step changes its customerId, productId, quantity
\* or createdAt; whereas a valid addCustomerInteraction succeeds and stores
\* its review also when its productId names no stored product.
C19_OrdersNameProducts ==
    /\ [](/\ \A o \in DOMAIN orders :
                /\ orders[o].id = o
                /\ orders[o].productId \in DOMAIN foodProducts
                /\ orders[o].quantity # 0
          /\ \A caller \in Callers, payload \in InteractionPayloads :
                (/\ payload.productId # "" /\ payload.rating # 0 /\ payload.review # ""
                 /\ payload.productId \notin DOMAIN foodProducts)
                    => LET e == addCustomerInteraction(caller, payload)
                       IN /\ e.ret.tag = "Ok"
                          /\ e.ret.val.productId = payload.productId
                          /\ Has(e.customerInteractions, e.ret.val.id)
                          /\ e.customerInteractions[e.ret.val.id] = e.ret.val)
    /\ [][\/ orders' = orders
          \/ \A o \in DOMAIN orders' :
                IF o \in DOMAIN orders
                THEN /\ orders'[o].customerId = orders[o].customerId
                     /\ orders'[o].productId = orders[o].productId
                     /\ orders'[o].quantity = orders[o].quantity
                     /\ orders'[o].createdAt = orders[o].createdAt
                ELSE /\ last'.op = "placeOrder"
                     /\ last'.ret = Ok(orders'[o])
                     /\ orders'[o].customerId = last'.caller
                     /\ orders'[o].productId = last'.id
                     /\ orders'[o].createdAt = now]_vars

\* An order is stored and has left status placed, and a review is stored
\* whose productId names no stored product.
C19_Witness ==
    /\ \E o \in DOMAIN orders : orders[o].status # "placed"
    /\ \E r \in DOMAIN customerInteractions :
          customerInteractions[r].productId \notin DOMAIN foodProducts

====
